---- MODULE Spec2Model ----
(***************************************************************************)
(* A model of bulkrename (src/src/bulkrename.py): the placeholder          *)
(* pipeline of Rename.create_name, the move planner Rename.create_move,    *)
(* the mover Rename.move_file / move_file, the runner Rename.run and       *)
(* FontModule.short_name.                                                  *)
(*                                                                         *)
(* A Python str is a sequence of one-character strings.  A file system is  *)
(* a function from node ids to entries; a node id is the sequence of the   *)
(* components of a canonical absolute path ("/w/a" is <<w, a>>, "/" is     *)
(* <<>>), which is one-to-one with the string os.path.realpath returns.    *)
(***************************************************************************)
EXTENDS Integers, Sequences, FiniteSets, TLC

VARIABLES args, modules, fs, pc, idx, names, moves, status, error, emitted,
          font, fpos, family, weight, string, name

vars == <<args, modules, fs, pc, idx, names, moves, status, error, emitted,
          font, fpos, family, weight, string, name>>

runVars == <<args, modules, fs, pc, idx, names, moves, status, error, emitted>>
fontVars == <<font, fpos, family, weight, string, name>>

----------------------------------------------------------------------------
(* Python values *)

None == [ty |-> "None", v |-> <<>>]
IsNone(x) == x.ty = "None"
PyStr(s) == [ty |-> "str", v |-> s]
PyInt(n) == [ty |-> "int", v |-> n]

SEP == "/"
EXTSEP == "."
CURDIR == <<".">>
PARDIR == <<".", ".">>

Range(s) == {s[i] : i \in 1..Len(s)}

(* p.rfind(c) + 1: the last position of c in p, 0 when there is none *)
RFind(p, c) ==
    LET hits == {i \in 1..Len(p) : p[i] = c}
    IN  IF hits = {} THEN 0 ELSE CHOOSE i \in hits : \A j \in hits : j <= i

(* p.find(c) + 1 *)
Find(p, c) ==
    LET hits == {i \in 1..Len(p) : p[i] = c}
    IN  IF hits = {} THEN 0 ELSE CHOOSE i \in hits : \A j \in hits : i <= j

(* p[:i] and p[i:] of Python, i counted from 0 *)
Prefix(p, i) == SubSeq(p, 1, i)
Suffix(p, i) == SubSeq(p, i + 1, Len(p))

RECURSIVE RStrip(_, _)
RStrip(p, c) ==
    IF p # <<>> /\ p[Len(p)] = c THEN RStrip(Prefix(p, Len(p) - 1), c) ELSE p

(* str(n) of a non-negative int: its decimal digits *)
Digit(d) == <<"0", "1", "2", "3", "4", "5", "6", "7", "8", "9">>[d + 1]

RECURSIVE Str(_)
Str(n) == IF n < 10 THEN <<Digit(n)>> ELSE Str(n \div 10) \o <<Digit(n % 10)>>

----------------------------------------------------------------------------
(* posixpath *)

(* os.path.splitext: the extension starts at the last dot of the last      *)
(* component, unless only dots precede it there *)
splitext(p) ==
    LET sepIndex == RFind(p, SEP)
        dotIndex == RFind(p, EXTSEP)
    IN  IF /\ dotIndex > sepIndex
           /\ \E k \in (sepIndex + 1)..(dotIndex - 1) : p[k] # EXTSEP
        THEN <<Prefix(p, dotIndex - 1), Suffix(p, dotIndex - 1)>>
        ELSE <<p, <<>>>>

dirname(p) ==
    LET i == RFind(p, SEP)
        head == Prefix(p, i)
    IN  IF head # <<>> /\ (\E k \in 1..Len(head) : head[k] # SEP)
        THEN RStrip(head, SEP)
        ELSE head

basename(p) == Suffix(p, RFind(p, SEP))

isabs(p) == p # <<>> /\ p[1] = SEP

(* rest.partition(sep): <<name, rest>> *)
Partition(rest) ==
    LET i == Find(rest, SEP)
    IN  IF i = 0 THEN <<rest, <<>>>> ELSE <<Prefix(rest, i - 1), Suffix(rest, i)>>

----------------------------------------------------------------------------
(* The file system *)

NoEntry == [kind |-> "none", ino |-> 0, data |-> <<>>, target |-> <<>>]
Dir == [kind |-> "dir", ino |-> 0, data |-> <<>>, target |-> <<>>]
RegularFile(i, d) == [kind |-> "file", ino |-> i, data |-> d, target |-> <<>>]
Symlink(t) == [kind |-> "link", ino |-> 0, data |-> <<>>, target |-> t]

Entry(fsys, node) == IF node \in DOMAIN fsys THEN fsys[node] ELSE NoEntry

Parent(node) == IF node = <<>> THEN <<>> ELSE SubSeq(node, 1, Len(node) - 1)

(* the process's working directory, "/w" *)
Cwd == << <<"w">> >>

(* the kernel's bound on the symbolic links followed in one lookup *)
MaxHops == 3

Failed == [ok |-> FALSE, node |-> <<>>]
Found(node) == [ok |-> TRUE, node |-> node]

(* The kernel's path lookup, from directory cur along rest.  A symbolic    *)
(* link is followed unless it is the last component and follow is FALSE;   *)
(* every component that a separator follows must be a directory.  The     *)
(* node found need not exist, its parent does.  NameiStep is the walk over *)
(* one component: [fail, cur, rest, hops] after it. *)
NameiGo(cur, rest, hops) == [fail |-> FALSE, cur |-> cur, rest |-> rest, hops |-> hops]
NameiStop == [fail |-> TRUE, cur |-> <<>>, rest |-> <<>>, hops |-> 0]

NameiLink(cur, target, more, last, hops) ==
    IF hops = 0 THEN NameiStop
    ELSE NameiGo(IF isabs(target) THEN <<>> ELSE cur,
                 IF last THEN target ELSE target \o <<SEP>> \o more, hops - 1)

NameiStep(fsys, cur, comp, more, last, follow, hops) ==
    IF Entry(fsys, cur).kind # "dir" THEN NameiStop
    ELSE IF comp = <<>> \/ comp = CURDIR THEN NameiGo(cur, more, hops)
    ELSE IF comp = PARDIR THEN NameiGo(Parent(cur), more, hops)
    ELSE IF Entry(fsys, Append(cur, comp)).kind = "link" /\ (follow \/ ~last)
    THEN NameiLink(cur, Entry(fsys, Append(cur, comp)).target, more, last, hops)
    ELSE IF ~last /\ Entry(fsys, Append(cur, comp)).kind # "dir" THEN NameiStop
    ELSE NameiGo(Append(cur, comp), more, hops)

RECURSIVE Namei(_, _, _, _, _)
NameiNext(fsys, s, follow) ==
    IF s.fail THEN Failed ELSE Namei(fsys, s.cur, s.rest, follow, s.hops)

Namei(fsys, cur, rest, follow, hops) ==
    IF rest = <<>> THEN Found(cur)
    ELSE NameiNext(fsys,
                   NameiStep(fsys, cur, Partition(rest)[1], Partition(rest)[2],
                             Find(rest, SEP) = 0, follow, hops),
                   follow)

(* lookup of a path string: absolute from the root, relative from Cwd;     *)
(* the empty path names nothing *)
Lookup(fsys, p, follow) ==
    IF p = <<>> THEN Failed
    ELSE Namei(fsys, IF isabs(p) THEN <<>> ELSE Cwd, p, follow, MaxHops)

(* os.path.isfile: os.stat follows links; any OSError is False *)
IsRegular(fsys, r) == r.ok /\ Entry(fsys, r.node).kind = "file"

isfile(fsys, p) == IsRegular(fsys, Lookup(fsys, p, TRUE))

(* posixpath._joinrealpath, non-strict: resolves rest from the resolved    *)
(* node path, following every symbolic link met, skipping empty and "."    *)
(* components and popping on "..".  seen holds the links being resolved;   *)
(* meeting one again is a loop, and the remaining path is then joined      *)
(* unresolved (ok = FALSE) and only normalised, as abspath does. *)
RECURSIVE JoinLexical(_, _)
JoinLexical(path, rest) ==
    IF rest = <<>> THEN path
    ELSE LET part == Partition(rest)
             comp == part[1]
         IN  IF comp = <<>> \/ comp = CURDIR THEN JoinLexical(path, part[2])
             ELSE IF comp = PARDIR THEN JoinLexical(Parent(path), part[2])
             ELSE JoinLexical(Append(path, comp), part[2])

RECURSIVE JoinRealPath(_, _, _, _)
RECURSIVE JoinRealPathLoop(_, _, _, _)
JoinRealPathLoop(fsys, path, rest, seen) ==
    IF rest = <<>> THEN [path |-> path, ok |-> TRUE]
    ELSE
        LET part == Partition(rest)
            comp == part[1]
            more == part[2]
            newpath == Append(path, comp)
        IN  IF comp = <<>> \/ comp = CURDIR
            THEN JoinRealPathLoop(fsys, path, more, seen)
            ELSE IF comp = PARDIR
            THEN JoinRealPathLoop(fsys, Parent(path), more, seen)
            ELSE IF Entry(fsys, newpath).kind # "link"
            THEN JoinRealPathLoop(fsys, newpath, more, seen)
            ELSE IF newpath \in seen
            THEN [path |-> JoinLexical(newpath, more), ok |-> FALSE]
            ELSE LET r == JoinRealPath(fsys, path, Entry(fsys, newpath).target,
                                       seen \cup {newpath})
                 IN  IF ~r.ok
                     THEN [path |-> JoinLexical(r.path, more), ok |-> FALSE]
                     ELSE JoinRealPathLoop(fsys, r.path, more, seen)

JoinRealPath(fsys, path, rest, seen) ==
    IF isabs(rest) THEN JoinRealPathLoop(fsys, <<>>, Suffix(rest, 1), seen)
    ELSE JoinRealPathLoop(fsys, path, rest, seen)

(* os.path.realpath: the node id of the canonical absolute path *)
realpath(fsys, p) == JoinRealPath(fsys, Cwd, p, {}).path

(* os.rename of a path that is a regular file (or a link to one) onto a    *)
(* path that is not: the last components are not followed.  The result is  *)
(* <<ok, file system>>; refused is the kernel refusing for a reason the    *)
(* model does not hold (permissions, a read-only or another file system).  *)
(* RenameNodes is the rename of the entry at lookup s to the one at d. *)
RenameNodes(fsys, s, d, refused) ==
    IF refused \/ ~s.ok \/ ~d.ok THEN <<FALSE, fsys>>
    ELSE IF Entry(fsys, s.node).kind = "none" THEN <<FALSE, fsys>>
    ELSE IF Entry(fsys, Parent(d.node)).kind # "dir" THEN <<FALSE, fsys>>
    ELSE IF Entry(fsys, d.node).kind = "dir" THEN <<FALSE, fsys>>
    ELSE IF s.node = d.node THEN <<TRUE, fsys>>
    ELSE <<TRUE, [n \in (DOMAIN fsys \ {s.node}) \cup {d.node} |->
                    IF n = d.node THEN fsys[s.node] ELSE fsys[n]]>>

rename(fsys, src, dst, refused) ==
    RenameNodes(fsys, Lookup(fsys, src, FALSE), Lookup(fsys, dst, FALSE), refused)

----------------------------------------------------------------------------
(* Exceptions and statuses *)

Exception(type, msg, arg) == [ty |-> "exception", type |-> type, msg |-> msg, arg |-> arg]

RenderError(msg, key) == Exception("RenderError", msg, key)
FileError(src_file) == Exception("FileError", "no such file", src_file)
ClobberError(dst_file) == Exception("ClobberError", "file exists", dst_file)
OSError(path) == Exception("OSError", "os error", path)
AttributeError == Exception("AttributeError", "NoneType has no attribute group", <<>>)

(* class Status *)
MOVE == 0
SAME == 1
FAIL == 2

(* str(err): the message and its argument *)
ErrStr(err) == [ty |-> "str", msg |-> err.msg, arg |-> err.arg]

----------------------------------------------------------------------------
(* Free functions *)

same_file(fsys, a_file, b_file) == realpath(fsys, a_file) = realpath(fsys, b_file)

(* [exc, fs]: the exception raised (or None) and the file system after *)
Renamed(fsys, dst_file, r) ==
    IF r[1] THEN [exc |-> None, fs |-> r[2]]
    ELSE [exc |-> OSError(dst_file), fs |-> fsys]

move_file(fsys, src_file, dst_file, clobber, refused) ==
    IF ~isfile(fsys, src_file)
    THEN [exc |-> FileError(src_file), fs |-> fsys]
    ELSE IF isfile(fsys, dst_file) /\ ~clobber
    THEN [exc |-> ClobberError(dst_file), fs |-> fsys]
    ELSE Renamed(fsys, dst_file, rename(fsys, src_file, dst_file, refused))

split_dir_file_ext(file_name) ==
    LET split == splitext(file_name)
    IN  <<dirname(split[1]), basename(split[1]), split[2]>>

----------------------------------------------------------------------------
(* Modules.  placeholders returns [exc, items, self]: the exception raised *)
(* (or None), the mapping as the sequence of its <<key, value>> items in   *)
(* dict order, and the module instance after the call. *)

Returns(items, self) == [exc |-> None, items |-> items, self |-> self]
Raises(exc, self) == [exc |-> exc, items |-> <<>>, self |-> self]

NumberModule(a) == [type |-> "number", number |-> a.number]

(* a counter that is not advanced *)
NumberModule_placeholders_NoIncrement(self, file_name) ==
    Returns(<< <<"n", PyInt(self.number)>> >>, self)

NumberModule_placeholders(self, file_name) ==
    Returns(<< <<"n", PyInt(self.number)>> >>,
            [self EXCEPT !.number = self.number + 1])

(* hashlib's digest of a file's bytes, in hex; a stand-in that keeps two   *)
(* leading hex digits: those of the empty input's digest for empty data,   *)
(* and digits that depend on the data otherwise *)
HexDigest(algorithm, data) ==
    IF data = <<>>
    THEN IF algorithm = "md5" THEN <<"d", "4">> ELSE <<"e", "3">>
    ELSE IF algorithm = "md5" THEN <<"0">> \o Str(data[1]) ELSE <<"1">> \o Str(data[1])

HashModule(a) == [type |-> "hash", hash |-> a.algorithm]

(* open(file_name, 'rb') raises OSError unless the path leads to a regular *)
(* file; r is the lookup of file_name *)
HashOpened(fsys, self, file_name, r) ==
    IF ~IsRegular(fsys, r)
    THEN Raises(OSError(file_name), self)
    ELSE Returns(<< <<"hash", PyStr(HexDigest(self.hash, Entry(fsys, r.node).data))>> >>,
                 self)

HashModule_placeholders(fsys, self, file_name) ==
    HashOpened(fsys, self, file_name, Lookup(fsys, file_name, TRUE))

(* A compiled pattern is [keys, cls]: the names of its named groups in     *)
(* group order, and the one-character class it searches for; every group   *)
(* spans the whole match: (?P<k1>(?P<k2>[cls])). *)
RegexModule(a) == [type |-> "regex", regex |-> a.regex, keys |-> a.regex.keys]

(* regex.search: the first match, or None *)
search(regex, s) ==
    LET hits == {i \in 1..Len(s) : s[i] \in regex.cls}
    IN  IF hits = {} THEN None
        ELSE PyStr(<<s[CHOOSE i \in hits : \A j \in hits : i <= j]>>)

(* a failed search that yields an empty mapping *)
Groups_OmitKeys(self, match) ==
    IF IsNone(match) THEN Returns(<<>>, self)
    ELSE Returns([i \in 1..Len(self.keys) |-> <<self.keys[i], match>>], self)

Groups(self, match) ==
    IF self.keys # <<>> /\ IsNone(match)
    THEN Raises(AttributeError, self)
    ELSE Returns([i \in 1..Len(self.keys) |-> <<self.keys[i], match>>], self)

RegexModule_placeholders(self, file_name) ==
    Groups(self, search(self.regex, file_name))

placeholders(fsys, self, file_name) ==
    IF self.type = "number" THEN NumberModule_placeholders(self, file_name)
    ELSE IF self.type = "hash" THEN HashModule_placeholders(fsys, self, file_name)
    ELSE RegexModule_placeholders(self, file_name)

(* Rename.MODULES *)
MODULES == {"number", "regex", "hash"}

Construct(module, a) ==
    IF module = "number" THEN NumberModule(a)
    ELSE IF module = "hash" THEN HashModule(a)
    ELSE RegexModule(a)

(* Rename.from_arguments: the module instances, one per selected name *)
from_arguments(a) == [i \in 1..Len(a.module) |-> Construct(a.module[i], a)]

----------------------------------------------------------------------------
(* Rename *)

(* format(value, ""): str of a str is itself, of an int its decimal digits *)
Format(value) == IF value.ty = "int" THEN Str(value.v) ELSE value.v

(* A format string is the sequence of its parsed fields: literal text      *)
(* [lit] or a replacement field [key].  str.format raises KeyError at the  *)
(* first replacement field whose key is missing. *)
Lit(s) == [t |-> "lit", s |-> s]
Key(k) == [t |-> "key", s |-> k]

RECURSIVE str_format(_, _)
Formatted(f, ph, r) ==
    IF ~IsNone(r.exc) THEN r
    ELSE [exc |-> None, s |-> (IF f.t = "key" THEN Format(ph[f.s]) ELSE f.s) \o r.s]

str_format(fmt, ph) ==
    IF fmt = <<>> THEN [exc |-> None, s |-> <<>>]
    ELSE IF Head(fmt).t = "key" /\ Head(fmt).s \notin DOMAIN ph
    THEN [exc |-> Exception("KeyError", "", Head(fmt).s), s |-> <<>>]
    ELSE Formatted(Head(fmt), ph, str_format(Tail(fmt), ph))

(* the inner loop of create_name over one module's items: the first key    *)
(* already present raises *)
RECURSIVE Insert(_, _)
(* an insertion that overwrites a key already present *)
InsertItem_Overwrite(ph, k, v, rest) ==
    Insert([x \in DOMAIN ph \cup {k} |-> IF x = k THEN v ELSE ph[x]], rest)

InsertItem(ph, k, v, rest) ==
    IF k \in DOMAIN ph
    THEN [exc |-> RenderError("duplicate key", k), ph |-> ph]
    ELSE Insert([x \in DOMAIN ph \cup {k} |-> IF x = k THEN v ELSE ph[x]], rest)

Insert(ph, items) ==
    IF items = <<>> THEN [exc |-> None, ph |-> ph]
    ELSE InsertItem(ph, Head(items)[1], Head(items)[2], Tail(items))

(* the outer loop of create_name from module i on: [exc, ph, mods];        *)
(* r is what module i's placeholders returned, ins the insertion of its    *)
(* items *)
RECURSIVE Collect(_, _, _, _, _)
Inserted(fsys, mods, i, file_name, ins) ==
    IF ~IsNone(ins.exc)
    THEN [exc |-> ins.exc, ph |-> ins.ph, mods |-> mods]
    ELSE Collect(fsys, mods, i + 1, ins.ph, file_name)

Called(fsys, mods, i, ph, file_name, r) ==
    IF ~IsNone(r.exc)
    THEN [exc |-> r.exc, ph |-> ph, mods |-> [mods EXCEPT ![i] = r.self]]
    ELSE Inserted(fsys, [mods EXCEPT ![i] = r.self], i, file_name,
                  Insert(ph, r.items))

Collect(fsys, mods, i, ph, file_name) ==
    IF i > Len(mods) THEN [exc |-> None, ph |-> ph, mods |-> mods]
    ELSE Called(fsys, mods, i, ph, file_name,
                placeholders(fsys, mods[i], file_name))

(* Rename.create_name: [exc, value, ph, mods] with value = <<path, rendered>>; *)
(* sp is the split path, c the collected placeholders, r the rendering *)
Limited(a, s) ==
    IF a.limit > 0 /\ a.limit < Len(s) THEN Prefix(s, a.limit) ELSE s

Rendered(a, sp, c, r) ==
    IF ~IsNone(r.exc)
    THEN [exc |-> RenderError("failed to render string", r.exc.arg),
          value |-> <<>>, ph |-> c.ph, mods |-> c.mods]
    ELSE [exc |-> None, value |-> <<sp[1], Limited(a, r.s)>>, ph |-> c.ph,
          mods |-> c.mods]

Collected(a, sp, c) ==
    IF ~IsNone(c.exc)
    THEN [exc |-> c.exc, value |-> <<>>, ph |-> c.ph, mods |-> c.mods]
    ELSE Rendered(a, sp, c, str_format(a.format, c.ph))

Seeded(fsys, a, mods, file_name, sp) ==
    Collected(a, sp,
              Collect(fsys, mods, 1,
                      [k \in {"name", "ext"} |->
                          IF k = "name" THEN PyStr(sp[2]) ELSE PyStr(sp[3])],
                      file_name))

create_name(fsys, a, mods, file_name) ==
    Seeded(fsys, a, mods, file_name, split_dir_file_ext(file_name))

(* Rename.create_move: operation = <<src, <<path, name>>>> *)
(* a join that does not test for an empty directory *)
create_move_AlwaysJoin(operation) ==
    <<operation[1], operation[2][1] \o <<SEP>> \o operation[2][2]>>

create_move(operation) ==
    LET src == operation[1]
        path == operation[2][1]
        nm == operation[2][2]
    IN  IF path # <<>> THEN <<src, path \o <<SEP>> \o nm>> ELSE <<src, nm>>

(* Rename.move_file: [fs, status] after the call *)
(* a failure that is not recorded *)
Recorded_DropFailed(fsys, st, r) ==
    IF IsNone(r.exc)
    THEN [fs |-> r.fs, status |-> Append(st, <<MOVE, None>>)]
    ELSE [fs |-> fsys, status |-> st]

Recorded(fsys, st, r) ==
    IF IsNone(r.exc)
    THEN [fs |-> r.fs, status |-> Append(st, <<MOVE, None>>)]
    ELSE [fs |-> fsys, status |-> Append(st, <<FAIL, ErrStr(r.exc)>>)]

(* the commit flag tested before the paths are compared *)
Rename_move_file_CommitFirst(fsys, a, src, dst, st, refused) ==
    IF ~a.commit
    THEN [fs |-> fsys, status |-> Append(st, <<MOVE, None>>)]
    ELSE IF same_file(fsys, src, dst)
    THEN [fs |-> fsys, status |-> Append(st, <<SAME, None>>)]
    ELSE Recorded(fsys, st, move_file(fsys, src, dst, FALSE, refused))

(* the commit flag not tested at all *)
Rename_move_file_AlwaysCommit(fsys, a, src, dst, st, refused) ==
    IF same_file(fsys, src, dst)
    THEN [fs |-> fsys, status |-> Append(st, <<SAME, None>>)]
    ELSE Recorded(fsys, st, move_file(fsys, src, dst, FALSE, refused))

Rename_move_file(fsys, a, src, dst, st, refused) ==
    IF same_file(fsys, src, dst)
    THEN [fs |-> fsys, status |-> Append(st, <<SAME, None>>)]
    ELSE IF ~a.commit
    THEN [fs |-> fsys, status |-> Append(st, <<MOVE, None>>)]
    ELSE Recorded(fsys, st, move_file(fsys, src, dst, FALSE, refused))

----------------------------------------------------------------------------
(* Rename.run, one step per evaluated element *)

(* names = [self.create_name(f) for f in files]: the next element; an      *)
(* exception leaves run *)
CreateNameDone(r) ==
    /\ modules' = r.mods
    /\ IF IsNone(r.exc)
       THEN /\ names' = Append(names, r.value)
            /\ emitted' = Append(emitted, r.ph)
            /\ idx' = idx + 1
            /\ UNCHANGED <<pc, error>>
       ELSE /\ pc' = "raised"
            /\ error' = r.exc
            /\ UNCHANGED <<names, emitted, idx>>

CreateName ==
    /\ pc = "names"
    /\ idx < Len(args.FILE)
    /\ CreateNameDone(create_name(fs, args, modules, args.FILE[idx + 1]))
    /\ UNCHANGED <<args, fs, moves, status>>
    /\ UNCHANGED fontVars

(* moves = [self.create_move(m) for m in zip(files, names)]; status = [] *)
CreateMoves ==
    /\ pc = "names"
    /\ idx = Len(args.FILE)
    /\ moves' = [i \in 1..Len(names) |-> create_move(<<args.FILE[i], names[i]>>)]
    /\ status' = <<>>
    /\ pc' = "moves"
    /\ idx' = 0
    /\ UNCHANGED <<args, modules, fs, names, error, emitted>>
    /\ UNCHANGED fontVars

(* for src, dst in moves: self.move_file(src, dst, status) *)
MoveFileDone(r) ==
    /\ fs' = r.fs
    /\ status' = r.status

MoveFile ==
    /\ pc = "moves"
    /\ idx < Len(moves)
    /\ \E refused \in BOOLEAN :
          MoveFileDone(Rename_move_file(fs, args, moves[idx + 1][1],
                                        moves[idx + 1][2], status, refused))
    /\ idx' = idx + 1
    /\ UNCHANGED <<args, modules, pc, names, moves, error, emitted>>
    /\ UNCHANGED fontVars

(* return moves, status *)
Return ==
    /\ pc = "moves"
    /\ idx = Len(moves)
    /\ pc' = "done"
    /\ UNCHANGED <<args, modules, fs, idx, names, moves, status, error, emitted>>
    /\ UNCHANGED fontVars

----------------------------------------------------------------------------
(* FontModule.short_name.  A name record is [nameID, string], string the   *)
(* record's bytes; decoded text is the sequence of its code points. *)

FONT_SPECIFIER_FAMILY_ID == 1
FONT_SPECIFIER_WEIGHT_ID == 2
FONT_SPECIFIER_STRING_ID == 3
FONT_SPECIFIER_NAME_ID == 4

(* bytes.decode('utf-16-be'): one code unit per pair of bytes; a trailing  *)
(* single byte is an error *)
RECURSIVE DecodeUtf16be(_)
DecodeUtf16be(b) ==
    IF b = <<>> THEN [ok |-> TRUE, s |-> <<>>]
    ELSE IF Len(b) = 1 THEN [ok |-> FALSE, s |-> <<>>]
    ELSE LET r == DecodeUtf16be(SubSeq(b, 3, Len(b)))
         IN  [ok |-> r.ok, s |-> <<b[1] * 256 + b[2]>> \o r.s]

(* bytes.decode('utf-8') of bytes below 128: one code point per byte *)
DecodeUtf8(b) == [ok |-> \A i \in 1..Len(b) : b[i] < 128, s |-> b]

decode_unicode(unicode) ==
    IF 0 \in Range(unicode.string) THEN DecodeUtf16be(unicode.string)
    ELSE DecodeUtf8(unicode.string)

(* the body of the loop of short_name for one record:                      *)
(* [family, weight, string, name] after it *)
short_name_record(record, decoded, f, w, s, n) ==
    IF record.nameID = FONT_SPECIFIER_FAMILY_ID /\ f = <<>>
    THEN [family |-> decoded, weight |-> w, string |-> s, name |-> n]
    ELSE IF record.nameID = FONT_SPECIFIER_WEIGHT_ID /\ w = <<>>
    THEN [family |-> f, weight |-> decoded, string |-> s, name |-> n]
    ELSE IF record.nameID = FONT_SPECIFIER_STRING_ID /\ w = <<>>
    THEN [family |-> f, weight |-> w, string |-> decoded, name |-> n]
    ELSE IF record.nameID = FONT_SPECIFIER_NAME_ID /\ n = <<>>
    THEN [family |-> f, weight |-> w, string |-> s, name |-> decoded]
    ELSE [family |-> f, weight |-> w, string |-> s, name |-> n]

(* for record in font['name'].names: the next record; the loop breaks once *)
(* the four fields are set, and a record that does not decode raises *)
ShortNameRecord ==
    /\ pc = "font"
    /\ fpos < Len(font)
    /\ LET record == font[fpos + 1]
           d == decode_unicode(record)
           r == short_name_record(record, d.s, family, weight, string, name)
       IN  IF ~d.ok
           THEN /\ pc' = "font_raised"
                /\ UNCHANGED <<fpos, family, weight, string, name>>
           ELSE /\ family' = r.family
                /\ weight' = r.weight
                /\ string' = r.string
                /\ name' = r.name
                /\ fpos' = fpos + 1
                /\ pc' = IF r.string # <<>> /\ r.family # <<>> /\ r.weight # <<>>
                            /\ r.name # <<>>
                         THEN "font_done" ELSE "font"
    /\ UNCHANGED font
    /\ UNCHANGED <<args, modules, fs, idx, names, moves, status, error, emitted>>

(* return family, weight, string, name, the records exhausted *)
ShortNameReturn ==
    /\ pc = "font"
    /\ fpos = Len(font)
    /\ pc' = "font_done"
    /\ UNCHANGED fontVars
    /\ UNCHANGED <<args, modules, fs, idx, names, moves, status, error, emitted>>

----------------------------------------------------------------------------
(* Configurations *)

MaxFiles == 2
MaxModules == 2
MaxRecords == 4

SeqsUpTo(S, n) == UNION {[1..k -> S] : k \in 0..n}

(* the paths given on the command line: a regular file, a symbolic link to *)
(* another regular file, and a path that names nothing *)
PathX == <<"a", "/", "x", ".", "t">>
PathL == <<"a", "/", "l", ".", "t">>
PathM == <<"a", "/", "m", ".", "t">>
Paths == {PathX, PathL, PathM}

(* /w/a holds x.t and y.t, both empty, l.t -> y.t, and k.t -> .. (the      *)
(* directory /w) *)
InitialFs ==
    LET w == <<"w">>
        a == <<"a">>
    IN  (<<>> :> Dir) @@ (<<w>> :> Dir) @@ (<<w, a>> :> Dir)
        @@ (<<w, a, <<"x", ".", "t">>>> :> RegularFile(1, <<>>))
        @@ (<<w, a, <<"y", ".", "t">>>> :> RegularFile(2, <<>>))
        @@ (<<w, a, <<"l", ".", "t">>>> :> Symlink(<<"y", ".", "t">>))
        @@ (<<w, a, <<"k", ".", "t">>>> :> Symlink(PARDIR))

(* --format: the default, a counter, two fixed names, a digest, a capture *)
DefaultFormat == <<Key("name"), Key("ext")>>
Formats ==
    { DefaultFormat,
      <<Key("n"), Key("ext")>>,
      <<Lit(<<"y", ".", "t">>)>>,
      <<Lit(<<"k", ".", "t">>)>>,
      <<Key("hash"), Key("ext")>>,
      <<Key("g"), Key("ext")>> }

(* --regex: x, (?P<g>[xl]) and (?P<g>(?P<name>[xl])) *)
NoRegex == [keys |-> <<>>, cls |-> {}]
Patterns ==
    { [keys |-> <<>>, cls |-> {"x"}],
      [keys |-> <<"g">>, cls |-> {"x", "l"}],
      [keys |-> <<"g", "name">>, cls |-> {"x", "l"}] }

Starts == {0, 9}
Limits == {0, 2}
Algorithms == {"md5", "sha256"}

(* the parsed arguments; an option no selected module reads keeps its      *)
(* default *)
Arguments ==
    { a \in [module : SeqsUpTo(MODULES, MaxModules), number : Starts,
             algorithm : Algorithms, regex : Patterns \cup {NoRegex},
             format : Formats, limit : Limits, commit : BOOLEAN,
             FILE : SeqsUpTo(Paths, MaxFiles)] :
        /\ ("number" \notin Range(a.module) => a.number = 0)
        /\ ("hash" \notin Range(a.module) => a.algorithm = "md5")
        /\ ("regex" \in Range(a.module) <=> a.regex # NoRegex) }

NoFont == <<>>

Init ==
    /\ args \in Arguments
    /\ modules = from_arguments(args)
    /\ fs = InitialFs
    /\ pc = "names"
    /\ idx = 0
    /\ names = <<>>
    /\ moves = <<>>
    /\ status = <<>>
    /\ error = None
    /\ emitted = <<>>
    /\ font = NoFont
    /\ fpos = 0
    /\ family = <<>>
    /\ weight = <<>>
    /\ string = <<>>
    /\ name = <<>>

Next == CreateName \/ CreateMoves \/ MoveFile \/ Return

Spec == Init /\ [][Next]_vars

----------------------------------------------------------------------------
(* Runs with no module, the default format and no limit, over one path of  *)
(* any shape *)

MaxPathLen == 4
PathChars == {"/", ".", "a"}

(* /w/a a regular file; or /w/a a directory holding a, beside /a; or /w/a  *)
(* a link to the directory /a *)
PathLayouts ==
    LET w == <<"w">>
        a == <<"a">>
    IN  { (<<>> :> Dir) @@ (<<w>> :> Dir) @@ (<<w, a>> :> RegularFile(1, <<>>)),
          (<<>> :> Dir) @@ (<<w>> :> Dir) @@ (<<w, a>> :> Dir)
              @@ (<<w, a, a>> :> RegularFile(1, <<>>))
              @@ (<<a>> :> RegularFile(2, <<>>)),
          (<<>> :> Dir) @@ (<<w>> :> Dir) @@ (<<a>> :> Dir)
              @@ (<<a, a>> :> RegularFile(1, <<>>))
              @@ (<<w, a>> :> Symlink(<<"/", "a">>)) }

DefaultArguments(file, commit) ==
    [module |-> <<>>, number |-> 0, algorithm |-> "md5", regex |-> NoRegex,
     format |-> DefaultFormat, limit |-> 0, commit |-> commit, FILE |-> <<file>>]

InitPath ==
    /\ \E file \in SeqsUpTo(PathChars, MaxPathLen), commit \in BOOLEAN :
          args = DefaultArguments(file, commit)
    /\ modules = from_arguments(args)
    /\ fs \in PathLayouts
    /\ pc = "names"
    /\ idx = 0
    /\ names = <<>>
    /\ moves = <<>>
    /\ status = <<>>
    /\ error = None
    /\ emitted = <<>>
    /\ font = NoFont
    /\ fpos = 0
    /\ family = <<>>
    /\ weight = <<>>
    /\ string = <<>>
    /\ name = <<>>

SpecPath == InitPath /\ [][Next]_vars

----------------------------------------------------------------------------
(* short_name over any sequence of name records *)

NameIDs == 0..4
RecordStrings == {<<>>, <<65>>, <<0, 66>>, <<0>>}
Records == [nameID : NameIDs, string : RecordStrings]

InitFont ==
    /\ font \in SeqsUpTo(Records, MaxRecords)
    /\ fpos = 0
    /\ family = <<>>
    /\ weight = <<>>
    /\ string = <<>>
    /\ name = <<>>
    /\ pc = "font"
    /\ args = DefaultArguments(<<>>, FALSE)
    /\ modules = <<>>
    /\ fs = InitialFs
    /\ idx = 0
    /\ names = <<>>
    /\ moves = <<>>
    /\ status = <<>>
    /\ error = None
    /\ emitted = <<>>

NextFont == ShortNameRecord \/ ShortNameReturn

SpecFont == InitFont /\ [][NextFont]_vars

----------------------------------------------------------------------------
(* Properties *)

Src(i) == moves[i][1]
Dst(i) == moves[i][2]

(* the move that the next step of the loop of run executes *)
Moving == pc = "moves" /\ idx < Len(moves)

SameEntity(fsys, a, b) == realpath(fsys, a) = realpath(fsys, b)

(* the path names an entry of any kind, a symbolic link included *)
LExists(fsys, p) ==
    Lookup(fsys, p, FALSE).ok /\ Entry(fsys, Lookup(fsys, p, FALSE).node).kind # "none"

Unchanged == <<SAME, None>>
Moved == <<MOVE, None>>
FailedWith(msg, arg) == <<FAIL, [ty |-> "str", msg |-> msg, arg |-> arg]>>

(* C1: a move whose source and destination resolve to the same entity      *)
(* records (SAME, None) and leaves the file system as it is, with and      *)
(* without --commit, whether or not the source is a regular file. *)
C1_SameFileUnchanged ==
    [][(Moving /\ SameEntity(fs, Src(idx + 1), Dst(idx + 1)))
         => (fs' = fs /\ status' = Append(status, Unchanged))]_vars

(* a committed run recorded SAME for a source that is no regular file *)
C1_Witness ==
    /\ args.commit
    /\ \E i \in 1..Len(status) :
          status[i] = Unchanged /\ ~isfile(fs, Src(i))

(* C2: without --commit the file system never changes, and every move      *)
(* whose source and destination do not resolve to the same entity is       *)
(* recorded (MOVE, None). *)
C2_DryRun ==
    ~args.commit =>
        /\ fs = InitialFs
        /\ \A i \in 1..Len(status) :
              ~SameEntity(fs, Src(i), Dst(i)) => status[i] = Moved

(* a dry run recorded MOVE for a missing source whose destination is an    *)
(* existing regular file *)
C2_Witness ==
    /\ ~args.commit
    /\ \E i \in 1..Len(status) :
          status[i] = Moved /\ ~isfile(fs, Src(i)) /\ isfile(fs, Dst(i))

(* C3: with --commit, a move of a regular file to a destination that       *)
(* exists when the move is executed and is distinct from the source        *)
(* records FAIL with the 'file exists' message and leaves the file system  *)
(* as it is. *)
C3_ClobberFails ==
    [][(Moving /\ args.commit /\ isfile(fs, Src(idx + 1))
          /\ LExists(fs, Dst(idx + 1))
          /\ ~SameEntity(fs, Src(idx + 1), Dst(idx + 1)))
         => (fs' = fs
             /\ status' = Append(status, FailedWith("file exists", Dst(idx + 1))))]_vars

(* C4: with the number module selected once, the value of n for the k-th   *)
(* file (from 0) is start + k, whatever the moves of the earlier files     *)
(* came to. *)
NumberOnce == Cardinality({i \in 1..Len(args.module) : args.module[i] = "number"}) = 1

C4_NumberSequence ==
    NumberOnce =>
        \A k \in 1..Len(emitted) :
            /\ "n" \in DOMAIN emitted[k]
            /\ emitted[k]["n"] = PyInt(args.number + (k - 1))

(* a finished committed run whose first move failed and whose second file  *)
(* was numbered start + 1 = 10 *)
C4_Witness ==
    /\ pc = "done"
    /\ NumberOnce
    /\ args.commit
    /\ Len(status) = 2
    /\ status[1][1] = FAIL
    /\ emitted[2]["n"] = PyInt(10)

(* C5: when the keys of the selected modules collide (with each other or   *)
(* with name and ext), no name is composed, no move is planned or executed *)
(* and the file system is untouched; and a run that raised the duplicate   *)
(* key error names the first key that was already present. *)
KeysOf(module) ==
    IF module = "number" THEN <<"n">>
    ELSE IF module = "hash" THEN <<"hash">>
    ELSE args.regex.keys

RECURSIVE AllKeys(_)
AllKeys(i) == IF i = 0 THEN <<"name", "ext">> ELSE AllKeys(i - 1) \o KeysOf(args.module[i])

Repeated(ks) == {j \in 1..Len(ks) : \E h \in 1..(j - 1) : ks[h] = ks[j]}

FirstRepeated(ks) == ks[CHOOSE j \in Repeated(ks) : \A h \in Repeated(ks) : j <= h]

C5_DuplicateKeyAborts ==
    LET ks == AllKeys(Len(args.module))
    IN  /\ (Repeated(ks) # {} /\ args.FILE # <<>>) =>
              /\ pc \in {"names", "raised"}
              /\ names = <<>> /\ moves = <<>> /\ status = <<>>
              /\ fs = InitialFs
        /\ (pc = "raised" /\ error.msg = "duplicate key") =>
              /\ Repeated(ks) # {}
              /\ error = RenderError("duplicate key", FirstRepeated(ks))

(* a committed run over two files raised the duplicate key error for hash *)
C5_Witness ==
    /\ pc = "raised"
    /\ error = RenderError("duplicate key", "hash")
    /\ args.commit
    /\ Len(args.FILE) = 2

(* C6: a run whose names were all composed plans one move per file, in     *)
(* the order of the files, and records one status per move, in the order   *)
(* of the moves; a failed move is recorded and the loop goes on; FAIL      *)
(* entries, and only they, carry a message. *)
C6_ReportShape ==
    /\ pc \in {"moves", "done"} =>
          /\ Len(moves) = Len(args.FILE)
          /\ \A i \in 1..Len(moves) : Src(i) = args.FILE[i]
          /\ Len(status) = idx
          /\ error = None
          /\ \A i \in 1..Len(status) :
                /\ status[i][1] \in {MOVE, SAME, FAIL}
                /\ status[i][1] = FAIL <=> ~IsNone(status[i][2])
    /\ pc = "done" => Len(status) = Len(args.FILE)

C6_ReportOrder ==
    [][Moving => /\ idx' = idx + 1
                 /\ Len(status') = idx + 1
                 /\ SubSeq(status', 1, idx) = status
                 /\ moves' = moves
                 /\ pc' = "moves"]_vars

C6_Report == []C6_ReportShape /\ C6_ReportOrder

(* a finished committed run of two files whose first move failed and whose *)
(* second was carried out *)
C6_Witness ==
    /\ pc = "done"
    /\ Len(args.FILE) = 2
    /\ status[1][1] = FAIL
    /\ status[2] = Moved
    /\ fs # InitialFs

(* C7, as claimed: with no module, the default format and no limit, the    *)
(* destination of every move is the string that its source is, and every   *)
(* status is (SAME, None). *)
C7_RejoinIdentity ==
    /\ \A i \in 1..Len(moves) : Dst(i) = Src(i)
    /\ \A i \in 1..Len(status) : status[i] = Unchanged

(* the last separator of the path, if any, follows a character that is no  *)
(* separator *)
SingleLastSep(p) ==
    RFind(p, SEP) = 0 \/ (RFind(p, SEP) > 1 /\ p[RFind(p, SEP) - 1] # SEP)

(* C7, amended: with no module, the default format and no limit, the       *)
(* destination of every move resolves to the entity its source resolves    *)
(* to, and is the same string exactly when the last separator of the       *)
(* source follows a character that is no separator (or there is none);     *)
(* every status is (SAME, None) and the file system never changes, with    *)
(* and without --commit. *)
C7_RejoinShape ==
    /\ \A i \in 1..Len(moves) :
          /\ SameEntity(fs, Src(i), Dst(i))
          /\ Dst(i) = Src(i) <=> SingleLastSep(Src(i))
    /\ \A i \in 1..Len(status) : status[i] = Unchanged

C7_RejoinSameEntity == []C7_RejoinShape /\ [][fs' = fs]_vars

(* a finished committed run recorded SAME for a regular file whose         *)
(* destination is another string than its source *)
C7_Witness ==
    /\ pc = "done"
    /\ args.commit
    /\ Dst(1) # Src(1)
    /\ isfile(fs, Src(1))
    /\ status[1] = Unchanged

RegexSelected == \E i \in 1..Len(args.module) : args.module[i] = "regex"
NoMatch(file_name) == IsNone(search(args.regex, file_name))

(* C8, as claimed: when the regex module is selected and the pattern finds *)
(* no match in the path of some file, run plans and executes no move,      *)
(* whatever the pattern. *)
C8_AnyPatternAborts ==
    (RegexSelected /\ \E i \in 1..Len(args.FILE) : NoMatch(args.FILE[i])) =>
        /\ pc \in {"names", "raised"}
        /\ moves = <<>> /\ status = <<>>

(* C8, amended: when the regex module is selected, its pattern has a named *)
(* group and finds no match in the path of some file, run plans and        *)
(* executes no move and leaves the file system untouched, no name is       *)
(* composed for a file without a match, and the AttributeError is raised   *)
(* at such a file. *)
C8_NoMatchAborts ==
    /\ (RegexSelected /\ args.regex.keys # <<>>
          /\ \E i \in 1..Len(args.FILE) : NoMatch(args.FILE[i])) =>
          /\ pc \in {"names", "raised"}
          /\ moves = <<>> /\ status = <<>>
          /\ fs = InitialFs
    /\ (RegexSelected /\ args.regex.keys # <<>>) =>
          \A i \in 1..Len(names) : ~NoMatch(args.FILE[i])
    /\ (pc = "raised" /\ error = AttributeError) =>
          RegexSelected /\ args.regex.keys # <<>> /\ NoMatch(args.FILE[idx + 1])

(* a committed run composed the name of its first file and raised at its   *)
(* second, which the pattern does not match *)
C8_Witness ==
    /\ pc = "raised"
    /\ error = AttributeError
    /\ idx = 1
    /\ args.commit

(* the decoded text of the first record of font with the name ID, the      *)
(* empty string when there is none *)
FirstText(id) ==
    LET hits == {i \in 1..Len(font) : font[i].nameID = id}
    IN  IF hits = {} THEN <<>>
        ELSE decode_unicode(font[CHOOSE i \in hits : \A j \in hits : i <= j]).s

(* C9: short_name returns, for each of the four fields, the decoded text   *)
(* of the first record with the field's name ID, and the empty string when *)
(* no record has it; stated for the fonts whose records all carry text. *)
C9_FirstRecordPerField ==
    (pc = "font_done" /\ \A i \in 1..Len(font) : decode_unicode(font[i]).s # <<>>) =>
        /\ family = FirstText(FONT_SPECIFIER_FAMILY_ID)
        /\ weight = FirstText(FONT_SPECIFIER_WEIGHT_ID)
        /\ string = FirstText(FONT_SPECIFIER_STRING_ID)
        /\ name = FirstText(FONT_SPECIFIER_NAME_ID)

(* the regular files of a file system: where each is, and what it holds *)
RegularFiles(fsys) == {n \in DOMAIN fsys : fsys[n].kind = "file"}
Contents(fsys) == {<<fsys[n].ino, fsys[n].data>> : n \in RegularFiles(fsys)}

(* the entry at node s is at node d instead, and nothing else differs *)
Relocated(before, after, s, d) ==
    /\ s \in DOMAIN before
    /\ d \notin DOMAIN before
    /\ DOMAIN after = (DOMAIN before \ {s}) \cup {d}
    /\ after[d] = before[s]
    /\ \A n \in DOMAIN before \ {s} : after[n] = before[n]

(* C10: with --commit, a step that records FAIL or SAME leaves the file    *)
(* system as it is, and a step that records MOVE takes the entry that the  *)
(* source names to the name of the destination, which named nothing        *)
(* before; the regular files and what they hold are the same after every   *)
(* step. *)
C10_NothingLost ==
    [][(Moving /\ args.commit) =>
          /\ status'[idx + 1][1] \in {FAIL, SAME} => fs' = fs
          /\ status'[idx + 1][1] = MOVE =>
                Relocated(fs, fs', Lookup(fs, Src(idx + 1), FALSE).node,
                          Lookup(fs, Dst(idx + 1), FALSE).node)
          /\ Cardinality(RegularFiles(fs')) = Cardinality(RegularFiles(fs))
          /\ Contents(fs') = Contents(fs)]_vars

====
